---- MODULE Spec2Model ----
(***************************************************************************)
(* Model of the stock dashboard controller, frontend/src/App.tsx.         *)
(*                                                                         *)
(* The component's React state is the model's state.  A task (an event    *)
(* handler, or the continuation of an awaited request) runs to completion *)
(* and its state updates are committed together; the passive effect of a  *)
(* commit (useEffect, deps [symbols, dataMap, loadingMap]) runs before    *)
(* the next task, which is what effectPending schedules.  The two maps of *)
(* requests (stockReqs, searchReqs) are the axios requests in flight;     *)
(* answered is a history variable, the answer last observed together with *)
(* the symbol or the keywords it answers.                                  *)
(***************************************************************************)
EXTENDS Integers, Sequences, FiniteSets, TLC

VARIABLES symbols, dataMap, loadingMap, errorMap, selected, sortAsc, query,
          suggestions, stockReqs, searchReqs, effectPending, answered

vars == <<symbols, dataMap, loadingMap, errorMap, selected, sortAsc, query,
          suggestions, stockReqs, searchReqs, effectPending, answered>>

---------------------------------------------------------------------------
(* Bounds of the environment: what the market-data API and the user send. *)

\* most samples in one intraday response, any closes in any key order
MaxSamples == 3
\* close prices of those responses are CloseStrings[1..MaxClose]
MaxClose == 3
\* most samples the market of MarketClose has traded when a request ends
MarketSamples == 2
\* most matches in one search response
MaxMatches == 6
\* most search requests outstanding at once
MaxPending == 2

\* ticker symbols the search API can return; the first is the default
Syms == {"AAPL", "MSFT", "GOOG"}
SymList == <<"AAPL", "MSFT", "GOOG">>

\* texts the user leaves in the search box, as sequences of characters
QueryTexts == {<<>>, <<"a">>, <<"a", " ">>, <<"a", "p">>}

\* timestamps of the 5min series, as the API's keys, in chronological order
TimeKeys == <<"2024-01-02 09:30:00", "2024-01-02 09:35:00",
              "2024-01-02 09:40:00", "2024-01-02 09:45:00",
              "2024-01-02 09:50:00">>
\* close prices as the API's decimal strings
CloseStrings == <<"1.0000", "2.0000", "3.0000", "4.0000">>

\* one trading day: the close of each symbol at TimeKeys[1], TimeKeys[2], ...
MarketClose ==
    [s \in Syms |->
        CASE s = "AAPL" -> <<"2.0000", "3.0000", "1.0000", "3.0000", "2.0000">>
          [] s = "MSFT" -> <<"1.0000", "1.0000", "3.0000", "1.0000", "3.0000">>
          [] s = "GOOG" -> <<"4.0000", "3.0000", "2.0000", "4.0000", "1.0000">>]

CompanyNames == <<"Apple Inc", "Microsoft Corp", "Alphabet Inc", "Apple Hospitality",
                  "Microsoft ADR", "Alphabet Class C", "Apple CDR", "Microsoft CDR">>

---------------------------------------------------------------------------
(* JavaScript values and library functions used by the component.         *)

Range(s) == {s[i] : i \in DOMAIN s}

\* { ...m, [k]: v }
Put(m, k, v) == [x \in (DOMAIN m) \cup {k} |-> IF x = k THEN v ELSE m[x]]

\* const copy = { ...m }; delete copy[k]
Delete(m, k) == [x \in (DOMAIN m) \ {k} |-> m[x]]

EmptyMap == [x \in {} |-> TRUE]

\* new Date(time).getTime(), in milliseconds from the first key
DateGetTime(time) ==
    300000 * ((CHOOSE i \in DOMAIN TimeKeys : TimeKeys[i] = time) - 1)

\* parseFloat of a decimal string of the API
parseFloat(str) == CHOOSE i \in DOMAIN CloseStrings : CloseStrings[i] = str

\* String.prototype.trim
RECURSIVE TrimStart(_)
TrimStart(s) == IF s # <<>> /\ Head(s) = " " THEN TrimStart(Tail(s)) ELSE s
RECURSIVE TrimEnd(_)
TrimEnd(s) ==
    IF s # <<>> /\ s[Len(s)] = " " THEN TrimEnd(SubSeq(s, 1, Len(s) - 1)) ELSE s
Trim(s) == TrimEnd(TrimStart(s))

\* Array.prototype.slice(0, n)
Slice0(s, n) == SubSeq(s, 1, IF Len(s) < n THEN Len(s) ELSE n)

---------------------------------------------------------------------------
(* What the market-data API can answer.                                    *)

Perms(n) == {p \in [1..n -> 1..n] : \A i, j \in 1..n : p[i] = p[j] => i = j}

\* A 'Time Series (5min)' object: distinct time keys in the order the
\* response lists them (Object.entries keeps it), each with its '4. close'.
RawSeriesOf(n) ==
    {[i \in 1..n |-> <<TimeKeys[p[i]], ("4. close" :> CloseStrings[c[i]])>>] :
        p \in Perms(n), c \in [1..n -> 1..MaxClose]}
RawSeries == UNION {RawSeriesOf(n) : n \in 0..MaxSamples}

\* What axios.get(DATA_API) ends with: a rejection, a body without the
\* series (an invalid symbol, the quota note), or a body with it.
FailedResponses ==
    {[kind |-> "reject", message |-> "Network Error"],
     [kind |-> "response", data |-> ("Note" :> "API call frequency exceeded")]}
StockResponses ==
    FailedResponses
    \cup {[kind |-> "response", data |-> ("Time Series (5min)" :> r)] : r \in RawSeries}

\* The series of sym on the day of MarketClose after n samples, listed
\* newest first (as the API does) or oldest first.
MarketSeries(sym, n, newestFirst) ==
    [i \in 1..n |->
        LET t == IF newestFirst THEN n + 1 - i ELSE i
        IN  <<TimeKeys[t], ("4. close" :> MarketClose[sym][t])>>]
MarketResponses(sym) ==
    FailedResponses
    \cup {[kind |-> "response",
           data |-> ("Time Series (5min)" :> MarketSeries(sym, n, newestFirst))] :
            n \in 0..MarketSamples, newestFirst \in BOOLEAN}

RawMatch(i) ==
    ("1. symbol" :> SymList[((i - 1) % Len(SymList)) + 1]) @@ ("2. name" :> CompanyNames[i])

\* What axios.get(SEARCH_API) ends with: a rejection, a body without
\* bestMatches, or a body with up to MaxMatches of them.
SearchResponses ==
    {[kind |-> "reject"]}
    \cup {[kind |-> "response", data |-> ("Note" :> "API call frequency exceeded")]}
    \cup {[kind |-> "response", data |-> ("bestMatches" :> [i \in 1..n |-> RawMatch(i)])] :
            n \in 0..MaxMatches}

---------------------------------------------------------------------------
(* fetchStock: the part of the try block after the await.                  *)

TypeErrorMessage == "Cannot read properties of undefined (reading 'close')"

\* Object.entries(rawSeries).map(([time, vals]) => ({ time, close: parseFloat(...) }))
toPoints(rawSeries) ==
    [i \in DOMAIN rawSeries |->
        [time |-> rawSeries[i][1], close |-> parseFloat(rawSeries[i][2]["4. close"])]]

\* the comparator of points.sort
compareTime(a, b) == DateGetTime(a.time) - DateGetTime(b.time)

\* (mutation) the points are left in the order of the response
sortPointsOmitted(s) == s

\* Array.prototype.sort is stable: x goes after the last element not greater
RECURSIVE sortPoints(_)
sortPoints(s) ==
    IF s = <<>> THEN <<>>
    ELSE LET r == sortPoints(SubSeq(s, 1, Len(s) - 1))
             x == s[Len(s)]
             le == {j \in DOMAIN r : compareTime(r[j], x) <= 0}
             p == IF le = {} THEN 0 ELSE CHOOSE j \in le : \A k \in le : k <= j
         IN  SubSeq(r, 1, p) \o <<x>> \o SubSeq(r, p + 1, Len(r))

\* ((last.close - prev.close) / prev.close) * 100, kept exact as num / den
changePctOf(last, prev) == [num |-> (last.close - prev.close) * 100, den |-> prev.close]

\* (mutation) the close of a missing point reads as undefined instead of
\* throwing: a series of fewer than 2 points is stored, its change 0 / 0
tryFetchReadsUndefined(sym, res) ==
    IF res.kind = "reject" THEN [ok |-> FALSE, message |-> res.message]
    ELSE IF "Time Series (5min)" \notin DOMAIN res.data
    THEN [ok |-> FALSE, message |-> "No data for " \o sym]
    ELSE LET points == sortPoints(toPoints(res.data["Time Series (5min)"]))
         IN  IF Len(points) < 2
             THEN [ok |-> TRUE,
                   data |-> [symbol |-> sym,
                             latestClose |-> 0,
                             changePct |-> [num |-> 0, den |-> 0],
                             history |-> points]]
             ELSE LET last == points[Len(points)]
                      prev == points[Len(points) - 1]
                  IN  [ok |-> TRUE,
                       data |-> [symbol |-> sym,
                                 latestClose |-> last.close,
                                 changePct |-> changePctOf(last, prev),
                                 history |-> points]]

\* The outcome of the try block for the answer res: the snapshot stored,
\* or the message of what was thrown.
tryFetch(sym, res) ==
    IF res.kind = "reject" THEN [ok |-> FALSE, message |-> res.message]
    ELSE IF "Time Series (5min)" \notin DOMAIN res.data
    THEN [ok |-> FALSE, message |-> "No data for " \o sym]
    ELSE LET points == sortPoints(toPoints(res.data["Time Series (5min)"]))
         IN  IF Len(points) < 2
             THEN [ok |-> FALSE, message |-> TypeErrorMessage]
             ELSE LET last == points[Len(points)]
                      prev == points[Len(points) - 1]
                  IN  [ok |-> TRUE,
                       data |-> [symbol |-> sym,
                                 latestClose |-> last.close,
                                 changePct |-> changePctOf(last, prev),
                                 history |-> points]]

---------------------------------------------------------------------------
(* fetchSuggestions: what setSuggestions receives for the answer res.      *)

MaxSuggestions == 5

toSearchMatch(m) == [symbol |-> m["1. symbol"], name |-> m["2. name"]]

\* (mutation) the list is stored without list.slice(0, 5)
suggestionsOfUncapped(res) ==
    IF res.kind = "reject" THEN <<>>
    ELSE LET matches == IF "bestMatches" \in DOMAIN res.data
                        THEN res.data["bestMatches"] ELSE <<>>
         IN  [i \in DOMAIN matches |-> toSearchMatch(matches[i])]

\* matches.map(...) and list.slice(0, 5), or [] from the catch
suggestionsOf(res) ==
    IF res.kind = "reject" THEN <<>>
    ELSE LET matches == IF "bestMatches" \in DOMAIN res.data
                        THEN res.data["bestMatches"] ELSE <<>>
             list == [i \in DOMAIN matches |-> toSearchMatch(matches[i])]
         IN  Slice0(list, MaxSuggestions)

---------------------------------------------------------------------------
(* The component.                                                          *)

\* useState initial values; the effect runs once after the first render
Init ==
    /\ symbols = <<"AAPL">>
    /\ dataMap = EmptyMap
    /\ loadingMap = EmptyMap
    /\ errorMap = EmptyMap
    /\ selected = {}
    /\ sortAsc = TRUE
    /\ query = <<>>
    /\ suggestions = <<>>
    /\ stockReqs = [s \in Syms |-> 0]
    /\ searchReqs = <<>>
    /\ effectPending = TRUE
    /\ answered = <<>>

\* dataMap[sym], loadingMap[sym] read as conditions
hasData(dm, sym) == sym \in DOMAIN dm
isLoading(lm, sym) == sym \in DOMAIN lm /\ lm[sym]

\* (mutation) the effect looks at the snapshot only
needsFetchIgnoringLoading(dm, lm, sym) == ~hasData(dm, sym)

\* (mutation) a snapshot does not stop the effect from fetching again
needsFetchIgnoringData(dm, lm, sym) == ~isLoading(lm, sym)

\* (mutation) the negation of the in-flight flag is lost
needsFetchNegationLost(dm, lm, sym) == ~hasData(dm, sym) /\ isLoading(lm, sym)

\* the condition of the effect: if (!dataMap[sym] && !loadingMap[sym])
needsFetch(dm, lm, sym) == ~hasData(dm, sym) /\ ~isLoading(lm, sym)

RECURSIVE PutAll(_, _, _)
PutAll(m, syms, v) ==
    IF syms = <<>> THEN m ELSE PutAll(Put(m, Head(syms), v), Tail(syms), v)

\* fetchStock up to its await, for each call of the effect in turn:
\* setLoadingMap(m => ({ ...m, [sym]: true }))
markLoading(lm, calls) == PutAll(lm, calls, TRUE)

\* (mutation) the error of the last attempt is left in place
clearErrorForgotten(em, calls) == PutAll(em, SelectSeq(calls, LAMBDA c : c \notin DOMAIN em), "")

\* setErrorMap(m => ({ ...m, [sym]: '' }))
clearError(em, calls) == PutAll(em, calls, "")

\* useEffect(() => symbols.forEach(...), [symbols, dataMap, loadingMap]):
\* every fetchStock call reads the maps of the render the effect belongs to.
useEffect ==
    /\ effectPending
    /\ LET calls == SelectSeq(symbols, LAMBDA sym : needsFetch(dataMap, loadingMap, sym))
       IN  /\ loadingMap' = markLoading(loadingMap, calls)
           /\ errorMap' = clearError(errorMap, calls)
           /\ stockReqs' = [s \in Syms |->
                  stockReqs[s] + Cardinality({i \in DOMAIN calls : calls[i] = s})]
           /\ effectPending' = (calls # <<>>)
    /\ UNCHANGED <<symbols, dataMap, selected, sortAsc, query, suggestions, searchReqs,
                   answered>>

\* (mutation) the flag is not cleared when the request ends
clearLoadingDropped(lm, sym) == lm

\* finally { setLoadingMap(m => ({ ...m, [sym]: false })) }
clearLoading(lm, sym) == Put(lm, sym, FALSE)

\* fetchStock from the await on: the request for sym ends with res
fetchStockSettle(sym, res) ==
    /\ ~effectPending
    /\ stockReqs[sym] > 0
    /\ stockReqs' = [stockReqs EXCEPT ![sym] = @ - 1]
    /\ LET r == tryFetch(sym, res)
       IN  IF r.ok
           THEN /\ dataMap' = Put(dataMap, sym, r.data)
                /\ errorMap' = errorMap
           ELSE /\ errorMap' = Put(errorMap, sym, r.message)
                /\ dataMap' = Delete(dataMap, sym)
    /\ loadingMap' = clearLoading(loadingMap, sym)
    /\ effectPending' = TRUE
    /\ UNCHANGED <<symbols, selected, sortAsc, query, suggestions, searchReqs>>

fetchStockResolve(sym, res) == fetchStockSettle(sym, res) /\ UNCHANGED answered

\* the same step, with the answer kept for comparison with what is stored
fetchStockObserved(sym, res) == fetchStockSettle(sym, res) /\ answered' = <<sym, res>>

\* (mutation) the catch block leaves the list as it is
fetchSuggestionsSettleCatchNothing(i, res) ==
    /\ ~effectPending
    /\ i \in DOMAIN searchReqs
    /\ searchReqs' = SubSeq(searchReqs, 1, i - 1) \o SubSeq(searchReqs, i + 1, Len(searchReqs))
    /\ suggestions' = IF res.kind = "reject" THEN suggestions ELSE suggestionsOf(res)
    /\ UNCHANGED <<symbols, dataMap, loadingMap, errorMap, selected, sortAsc, query,
                   stockReqs, effectPending>>

\* (mutation) an answer is applied only if its keywords are the current query
fetchSuggestionsSettleIfCurrent(i, res) ==
    /\ ~effectPending
    /\ i \in DOMAIN searchReqs
    /\ searchReqs' = SubSeq(searchReqs, 1, i - 1) \o SubSeq(searchReqs, i + 1, Len(searchReqs))
    /\ suggestions' = IF searchReqs[i] = query THEN suggestionsOf(res) ELSE suggestions
    /\ UNCHANGED <<symbols, dataMap, loadingMap, errorMap, selected, sortAsc, query,
                   stockReqs, effectPending>>

\* fetchSuggestions from the await on: the i-th outstanding request ends
fetchSuggestionsSettle(i, res) ==
    /\ ~effectPending
    /\ i \in DOMAIN searchReqs
    /\ searchReqs' = SubSeq(searchReqs, 1, i - 1) \o SubSeq(searchReqs, i + 1, Len(searchReqs))
    /\ suggestions' = suggestionsOf(res)
    /\ UNCHANGED <<symbols, dataMap, loadingMap, errorMap, selected, sortAsc, query,
                   stockReqs, effectPending>>

fetchSuggestionsResolve(i, res) == fetchSuggestionsSettle(i, res) /\ UNCHANGED answered

\* the same step, with the answer and its keywords kept
fetchSuggestionsObserved(i, res) ==
    fetchSuggestionsSettle(i, res) /\ answered' = <<searchReqs[i], res>>

MinQueryLen == 2

\* (mutation) the search starts from the first character
startsSearchFromOne(v) == Len(v) >= 1

\* if (v.length >= 2) fetchSuggestions(v)
startsSearch(v) == Len(v) >= MinQueryLen

handleQueryChange(v) ==
    /\ ~effectPending
    /\ v # query
    /\ startsSearch(v) => Len(searchReqs) < MaxPending
    /\ query' = v
    /\ IF startsSearch(v)
       THEN /\ searchReqs' = Append(searchReqs, v)
            /\ suggestions' = suggestions
       ELSE /\ suggestions' = <<>>
            /\ searchReqs' = searchReqs
    /\ UNCHANGED <<symbols, dataMap, loadingMap, errorMap, selected, sortAsc,
                   stockReqs, effectPending, answered>>

\* (mutation) the symbol is appended without the includes test
addSymbolAlways(list, sym) == Append(list, sym)

\* (mutation) the includes test is inverted
addSymbolInverted(list, sym) == IF sym \in Range(list) THEN Append(list, sym) ELSE list

\* if (!symbols.includes(sym)) setSymbols([...symbols, sym])
addSymbol(list, sym) == IF sym \in Range(list) THEN list ELSE Append(list, sym)

\* onClick of a suggestion
handleAdd(sym) ==
    /\ ~effectPending
    /\ \E i \in DOMAIN suggestions : suggestions[i].symbol = sym
    /\ symbols' = addSymbol(symbols, sym)
    /\ effectPending' = (symbols' # symbols)
    /\ query' = <<>>
    /\ suggestions' = <<>>
    /\ UNCHANGED <<dataMap, loadingMap, errorMap, selected, sortAsc, stockReqs, searchReqs,
                   answered>>

\* (mutation) the comparator ignores the sort direction
compareRowsAscending(dm, asc, a, b) == dm[a].latestClose - dm[b].latestClose

\* the comparator of the sorted rows
compareRows(dm, asc, a, b) ==
    IF asc THEN dm[a].latestClose - dm[b].latestClose
    ELSE dm[b].latestClose - dm[a].latestClose

RECURSIVE sortRows(_, _, _)
sortRows(s, dm, asc) ==
    IF s = <<>> THEN <<>>
    ELSE LET r == sortRows(SubSeq(s, 1, Len(s) - 1), dm, asc)
             x == s[Len(s)]
             le == {j \in DOMAIN r : compareRows(dm, asc, r[j], x) <= 0}
             p == IF le = {} THEN 0 ELSE CHOOSE j \in le : \A k \in le : k <= j
         IN  SubSeq(r, 1, p) \o <<x>> \o SubSeq(r, p + 1, Len(r))

\* useMemo: symbols.filter(sym => dataMap[sym]).sort(...)
sortedRows(syms, dm, asc) ==
    sortRows(SelectSeq(syms, LAMBDA sym : hasData(dm, sym)), dm, asc)
sorted == sortedRows(symbols, dataMap, sortAsc)

\* (mutation) the row click only ever adds the symbol
toggledAddOnly(s, sym) == s \cup {sym}

\* c.has(sym) ? c.delete(sym) : c.add(sym)
toggled(s, sym) == IF sym \in s THEN s \ {sym} ELSE s \cup {sym}

\* onClick of a table row
toggleSelect(sym) ==
    /\ ~effectPending
    /\ sym \in Range(sorted)
    /\ selected' = toggled(selected, sym)
    /\ UNCHANGED <<symbols, dataMap, loadingMap, errorMap, sortAsc, query, suggestions,
                   stockReqs, searchReqs, effectPending, answered>>

\* (mutation) the click also drops the snapshots, to be fetched again
toggleSortRefetching ==
    /\ ~effectPending
    /\ sortAsc' = ~sortAsc
    /\ dataMap' = EmptyMap
    /\ effectPending' = TRUE
    /\ UNCHANGED <<symbols, loadingMap, errorMap, selected, query, suggestions,
                   stockReqs, searchReqs, answered>>

\* onClick of the Price header: setSortAsc(!sortAsc)
toggleSort ==
    /\ ~effectPending
    /\ sortAsc' = ~sortAsc
    /\ UNCHANGED <<symbols, dataMap, loadingMap, errorMap, selected, query, suggestions,
                   stockReqs, searchReqs, effectPending, answered>>

Next ==
    \/ useEffect
    \/ \E sym \in Syms : \E res \in MarketResponses(sym) : fetchStockResolve(sym, res)
    \/ \E i \in 1..MaxPending, res \in SearchResponses : fetchSuggestionsResolve(i, res)
    \/ \E v \in QueryTexts : handleQueryChange(v)
    \/ \E sym \in Syms : handleAdd(sym)
    \/ \E sym \in Syms : toggleSelect(sym)
    \/ toggleSort

Spec == Init /\ [][Next]_vars

\* The dashboard left with its default symbol, the API answering anything.
NextFeed ==
    \/ useEffect
    \/ \E sym \in Syms, res \in StockResponses : fetchStockObserved(sym, res)
    \/ \E sym \in Syms : toggleSelect(sym)
    \/ toggleSort

SpecFeed == Init /\ [][NextFeed]_vars

\* The search box alone: the user types and selects, the search API answers
\* in any order; no intraday answer arrives meanwhile.
NextSearch ==
    \/ useEffect
    \/ \E i \in 1..MaxPending, res \in SearchResponses : fetchSuggestionsObserved(i, res)
    \/ \E v \in QueryTexts : handleQueryChange(v)
    \/ \E sym \in Syms : handleAdd(sym)

SpecSearch == Init /\ [][NextSearch]_vars

\* Scheduling: the effect of a commit always runs, and every intraday
\* request that was issued is answered and its continuation run.
Fairness ==
    /\ WF_vars(useEffect)
    /\ \A sym \in Syms :
           SF_vars(\E res \in MarketResponses(sym) : fetchStockResolve(sym, res))

\* The steps that take part in fetching: the row and header clicks, which
\* touch neither the watchlist nor the maps, are left to Spec.
NextLive ==
    \/ useEffect
    \/ \E sym \in Syms : \E res \in MarketResponses(sym) : fetchStockResolve(sym, res)
    \/ \E i \in 1..MaxPending, res \in SearchResponses : fetchSuggestionsResolve(i, res)
    \/ \E v \in QueryTexts : handleQueryChange(v)
    \/ \E sym \in Syms : handleAdd(sym)

SpecLive == Init /\ [][NextLive]_vars /\ Fairness

---------------------------------------------------------------------------
(* Claims.                                                                 *)

\* C1: nothing is retried automatically: once a fetch for a symbol has
\* completed with a failure (its error message is recorded), no step
\* initiates a further fetch for that symbol.
C1_NoAutomaticRetry ==
    [][\A s \in Syms :
          (s \in DOMAIN errorMap /\ errorMap[s] # "") => stockReqs'[s] <= stockReqs[s]]_vars

\* C2: in every reachable state each symbol has at most one fetch in flight.
C2_AtMostOneInFlight == \A s \in Syms : stockReqs[s] <= 1

\* C2 witness: AAPL is still in flight after MSFT was added, fetched and
\* resolved, and the effect that followed MSFT's completion has run.
C2_Witness ==
    /\ ~effectPending
    /\ stockReqs["AAPL"] = 1
    /\ "MSFT" \in DOMAIN dataMap

\* C3: when a fetch for a symbol completes, the symbol is left either with
\* no snapshot and a non-empty error message (the failure) or with a
\* snapshot and an empty error message (the success, also after an earlier
\* failure); a rejected request or an answer without the series is a failure.
C3_FailureThenSuccess ==
    [][\A s \in Syms :
          stockReqs'[s] < stockReqs[s] =>
              /\ s \in DOMAIN errorMap'
              /\ hasData(dataMap', s) => errorMap'[s] = ""
              /\ ~hasData(dataMap', s) => errorMap'[s] # ""
              /\ \A res \in FailedResponses :
                     fetchStockResolve(s, res) => ~hasData(dataMap', s)]_vars

\* C3 witness: a failed fetch has left AAPL with an error and no snapshot
\* while MSFT, fetched meanwhile, has a snapshot and a cleared error.
C3_Witness ==
    /\ "AAPL" \in DOMAIN errorMap /\ errorMap["AAPL"] = "No data for AAPL"
    /\ ~hasData(dataMap, "AAPL")
    /\ hasData(dataMap, "MSFT") /\ errorMap["MSFT"] = ""

\* the entry of a raw series with the latest timestamp
LatestEntry(entries) ==
    CHOOSE e \in entries : \A f \in entries : DateGetTime(f[1]) <= DateGetTime(e[1])

\* C4: a successful fetch whose series has at least 2 samples stores
\* latestClose = the close of the chronologically last sample and
\* changePct = (last.close - prev.close) / prev.close * 100 with prev the
\* chronologically second-to-last sample, whatever the order of the samples
\* in the response (answered is the response the stored snapshot came from).
C4_LatestAndChange ==
    answered # <<>> =>
        LET s == answered[1]
            res == answered[2]
        IN  ( /\ res.kind = "response"
              /\ "Time Series (5min)" \in DOMAIN res.data
              /\ Len(res.data["Time Series (5min)"]) >= 2 ) =>
            LET entries == Range(res.data["Time Series (5min)"])
                last == LatestEntry(entries)
                prev == LatestEntry(entries \ {last})
                lastClose == parseFloat(last[2]["4. close"])
                prevClose == parseFloat(prev[2]["4. close"])
            IN  /\ hasData(dataMap, s)
                /\ dataMap[s].latestClose = lastClose
                /\ dataMap[s].changePct.den # 0
                /\ dataMap[s].changePct.num * prevClose
                       = (lastClose - prevClose) * 100 * dataMap[s].changePct.den

\* C4 witness: the samples 2, 3, 1 in ascending time (the spec's 100, 101,
\* 99), answered newest first, are stored with latestClose 1 and changePct
\* (1 - 3) / 3 * 100.
C4_Witness ==
    /\ answered # <<>>
    /\ answered[2].kind = "response"
    /\ "Time Series (5min)" \in DOMAIN answered[2].data
    /\ Len(answered[2].data["Time Series (5min)"]) = 3
    /\ answered[2].data["Time Series (5min)"][1][1] = TimeKeys[3]
    /\ hasData(dataMap, "AAPL")
    /\ Len(dataMap["AAPL"].history) = 3
    /\ [i \in 1..3 |-> dataMap["AAPL"].history[i].close] = <<2, 3, 1>>
    /\ dataMap["AAPL"].latestClose = 1
    /\ dataMap["AAPL"].changePct = [num |-> -200, den |-> 3]

\* C5: for either sort direction the sorted rows are exactly the watchlist
\* symbols that have a snapshot, each once, with latestClose non-decreasing
\* (ascending) or non-increasing (descending).
C5_SortedRows ==
    \A asc \in BOOLEAN :
        LET rows == sortedRows(symbols, dataMap, asc)
            have == {s \in Range(symbols) : hasData(dataMap, s)}
        IN  /\ Range(rows) = have
            /\ Len(rows) = Cardinality(have)
            /\ \A i \in 1..(Len(rows) - 1) :
                   IF asc
                   THEN dataMap[rows[i]].latestClose <= dataMap[rows[i + 1]].latestClose
                   ELSE dataMap[rows[i]].latestClose >= dataMap[rows[i + 1]].latestClose

\* C5 witness: three rows shown in descending order, which is not the order
\* of the watchlist.
C5_Witness ==
    /\ ~sortAsc
    /\ Len(sorted) = 3
    /\ dataMap[sorted[1]].latestClose > dataMap[sorted[3]].latestClose
    /\ sorted # symbols

\* C6: adding a symbol that is already in the watchlist leaves the
\* watchlist as it is: the watchlist never holds a symbol twice, and adding
\* a symbol twice gives the same watchlist as adding it once.
C6_AddIdempotent ==
    /\ \A i, j \in DOMAIN symbols : symbols[i] = symbols[j] => i = j
    /\ \A sym \in Syms :
           /\ addSymbol(addSymbol(symbols, sym), sym) = addSymbol(symbols, sym)
           /\ Len(addSymbol(addSymbol(symbols, sym), sym)) = Len(addSymbol(symbols, sym))
           /\ sym \in Range(symbols) => addSymbol(symbols, sym) = symbols

\* C6 witness: every symbol has been added, and the suggestion list offers
\* symbols of the watchlist again.
C6_Witness ==
    /\ Len(symbols) = Cardinality(Syms)
    /\ suggestions # <<>>
    /\ \A i \in DOMAIN suggestions : suggestions[i].symbol \in Range(symbols)

\* C7 as stated: when the query changes to a text whose TRIMMED length is
\* below 2 the suggestion list is empty right after and no search request
\* is issued; a request is issued only for a trimmed length of at least 2.
C7_TrimmedLength ==
    [][ /\ (query' # query /\ Len(Trim(query')) < 2) =>
               (suggestions' = <<>> /\ searchReqs' = searchReqs)
        /\ Len(searchReqs') > Len(searchReqs) => Len(Trim(query')) >= 2 ]_vars

\* C7 as amended: when the query changes to a text whose length as typed
\* (not trimmed) is below 2 the suggestion list is empty right after and no
\* search request is issued; a request is issued only when the new text
\* has at least 2 characters, and it is issued for that text.
C7_TypedLength ==
    [][ /\ (query' # query /\ Len(query') < 2) =>
               (suggestions' = <<>> /\ searchReqs' = searchReqs)
        /\ Len(searchReqs') > Len(searchReqs) =>
               (Len(query') >= 2 /\ searchReqs' = Append(searchReqs, query')) ]_vars

\* C7 witness: the query was "ap" (its request is still outstanding) and
\* has been shortened to "a": no suggestions, no second request.
C7_Witness ==
    /\ query = <<"a">>
    /\ suggestions = <<>>
    /\ searchReqs = << <<"a", "p">> >>

\* C8: the suggestion list never has more than 5 entries, and a search
\* response that is applied leaves exactly its first min(5, n) matches, in
\* the order received.
C8_FirstFiveMatches ==
    [][ /\ Len(suggestions) <= 5 /\ Len(suggestions') <= 5
        /\ Len(searchReqs') < Len(searchReqs) =>
           \A i \in 1..MaxPending : \A res \in SearchResponses :
               ( /\ res.kind = "response"
                 /\ "bestMatches" \in DOMAIN res.data
                 /\ fetchSuggestionsResolve(i, res) ) =>
                   LET m == res.data["bestMatches"]
                       k == IF Len(m) < 5 THEN Len(m) ELSE 5
                   IN  /\ Len(suggestions') = k
                       /\ \A j \in 1..k :
                              suggestions'[j] = [symbol |-> m[j]["1. symbol"],
                                                 name |-> m[j]["2. name"]] ]_vars

\* C8 witness: a response with at least 5 matches has been applied.
C8_Witness ==
    /\ Len(suggestions) = 5
    /\ suggestions[1] = [symbol |-> "AAPL", name |-> "Apple Inc"]
    /\ suggestions[5] = [symbol |-> "MSFT", name |-> "Microsoft ADR"]

\* C9: right after a suggestion is selected its symbol is in the watchlist
\* and the query and the suggestion list are empty, whether or not the
\* symbol was in the watchlist before.
C9_SelectSuggestion ==
    [][\A sym \in Syms :
          handleAdd(sym) =>
              /\ sym \in Range(symbols')
              /\ query' = <<>>
              /\ suggestions' = <<>>]_vars

\* C9 witness: MSFT was selected from the suggestions of a typed query; the
\* effect for the new watchlist has not run yet.
C9_Witness ==
    /\ symbols = <<"AAPL", "MSFT">>
    /\ effectPending
    /\ stockReqs["MSFT"] = 0 /\ "MSFT" \notin DOMAIN loadingMap
    /\ query = <<>>
    /\ suggestions = <<>>

\* C10: one toggle of a symbol's chart flips the membership of exactly that
\* symbol in the selection set, and a second toggle right after it gives
\* the original selection set back.
C10_ToggleTwice ==
    [][\A sym \in Syms :
          toggleSelect(sym) =>
              /\ (sym \in selected') <=> (sym \notin selected)
              /\ \A other \in Syms \ {sym} : (other \in selected') <=> (other \in selected)
              /\ toggled(selected', sym) = selected]_vars

\* C10 witness: the charts of MSFT and GOOG are open, AAPL's row is shown
\* and its chart is not.
C10_Witness ==
    /\ selected = {"MSFT", "GOOG"}
    /\ hasData(dataMap, "AAPL")


\* C11: a symbol search that fails empties the suggestion list and changes
\* nothing else: the watchlist, the snapshots, the in-flight flags, the
\* per-symbol error messages, the selection, the sort flag and the query
\* text stay as they are, and no intraday fetch starts.
C11_SearchFailure ==
    [][ \A i \in 1..MaxPending :
            fetchSuggestionsResolve(i, [kind |-> "reject"]) =>
                /\ suggestions' = <<>>
                /\ UNCHANGED <<symbols, dataMap, loadingMap, errorMap, selected,
                               sortAsc, query, stockReqs, effectPending>> ]_vars

\* a search has ended with an empty list while the typed query is long
\* enough, one symbol shows a snapshot and another is being fetched
C11_Witness ==
    /\ query = <<"a", "p">>
    /\ searchReqs = <<>>
    /\ suggestions = <<>>
    /\ hasData(dataMap, "AAPL")
    /\ isLoading(loadingMap, "GOOG")


\* C12: once the effect has run, every watchlist symbol without a snapshot
\* has a fetch in flight; and, every issued request being answered, every
\* symbol of the watchlist, the default one and the added ones, eventually
\* has a snapshot or a non-empty error message.
C12_EverySymbolFetched ==
    /\ [](~effectPending =>
            \A s \in Range(symbols) :
                hasData(dataMap, s) \/ (isLoading(loadingMap, s) /\ stockReqs[s] > 0))
    /\ \A s \in Syms :
           (s \in Range(symbols)) ~>
               (hasData(dataMap, s) \/ (s \in DOMAIN errorMap /\ errorMap[s] # ""))

\* an added symbol shows its error message while the default symbol and
\* another added symbol show snapshots
C12_Witness ==
    /\ symbols = <<"AAPL", "GOOG", "MSFT">>
    /\ hasData(dataMap, "AAPL")
    /\ hasData(dataMap, "MSFT")
    /\ ~hasData(dataMap, "GOOG")
    /\ errorMap["GOOG"] = "No data for GOOG"


\* C13: whenever a request for a symbol ends, by a snapshot, by a missing
\* payload or by a network or parse error, the symbol's in-flight flag is
\* false right after; and, every issued request being answered, a symbol
\* that is in flight is eventually not in flight.
C13_LoadingCleared ==
    /\ [][ \A s \in Syms :
               stockReqs'[s] < stockReqs[s] =>
                   (s \in DOMAIN loadingMap' /\ ~loadingMap'[s]) ]_vars
    /\ \A s \in Syms : isLoading(loadingMap, s) ~> ~isLoading(loadingMap, s)

\* a request has ended with a snapshot and another with a rejection, both
\* flags cleared, while a third symbol is still in flight
C13_Witness ==
    /\ symbols = <<"AAPL", "MSFT", "GOOG">>
    /\ hasData(dataMap, "AAPL") /\ ~isLoading(loadingMap, "AAPL")
    /\ stockReqs["MSFT"] = 1 /\ isLoading(loadingMap, "MSFT")
    /\ "GOOG" \in DOMAIN loadingMap /\ ~loadingMap["GOOG"]
    /\ errorMap["GOOG"] = "Network Error" /\ ~isLoading(loadingMap, "GOOG")


\* C14: answers to searches are applied as they arrive, whatever query they
\* answer: when every outstanding search has been answered and the last
\* answer to arrive was the one to an earlier query than the current one,
\* the suggestion list holds that earlier query's results (its first five
\* matches, or nothing if it failed).
C14_StaleAnswerShown ==
    ( /\ searchReqs = <<>>
      /\ Len(query) >= 2
      /\ answered # <<>>
      /\ answered[1] # query ) =>
        LET res == answered[2]
            m == IF res.kind = "response" /\ "bestMatches" \in DOMAIN res.data
                 THEN res.data["bestMatches"] ELSE <<>>
            k == IF Len(m) < 5 THEN Len(m) ELSE 5
        IN  /\ Len(suggestions) = k
            /\ \A j \in 1..k :
                   suggestions[j] = [symbol |-> m[j]["1. symbol"], name |-> m[j]["2. name"]]

\* the query is "ap", both searches have been answered, the answer to the
\* earlier query "a " came last, and its two matches are the list shown
C14_Witness ==
    /\ query = <<"a", "p">>
    /\ searchReqs = <<>>
    /\ answered # <<>>
    /\ answered[1] = <<"a", " ">>
    /\ answered[2].kind = "response"
    /\ "bestMatches" \in DOMAIN answered[2].data
    /\ Len(answered[2].data["bestMatches"]) = 2
    /\ Len(suggestions) = 2


\* an answer that carries the series with fewer than 2 samples
ShortSeries(res) ==
    /\ res.kind = "response"
    /\ "Time Series (5min)" \in DOMAIN res.data
    /\ Len(res.data["Time Series (5min)"]) < 2

\* C15 as claimed: when a request is answered by a series of fewer than 2
\* samples, the fetch does not end in the error state: a snapshot is stored
\* for the symbol and no error message is recorded.
C15_ShortSeriesStored ==
    [][ \A s \in Syms :
            ( /\ stockReqs'[s] < stockReqs[s]
              /\ answered' # <<>> /\ answered'[1] = s
              /\ ShortSeries(answered'[2]) ) =>
                (hasData(dataMap', s) /\ errorMap'[s] = "") ]_vars

\* C15: when a request is answered by a series of fewer than 2 samples,
\* reading the close of the missing sample throws, and the fetch ends in
\* the error state like any other failure: no snapshot for the symbol, the
\* message of the TypeError recorded, the in-flight flag cleared.
C15_ShortSeriesIsError ==
    [][ \A s \in Syms :
            ( /\ stockReqs'[s] < stockReqs[s]
              /\ answered' # <<>> /\ answered'[1] = s
              /\ ShortSeries(answered'[2]) ) =>
                /\ ~hasData(dataMap', s)
                /\ errorMap'[s] = TypeErrorMessage
                /\ s \in DOMAIN loadingMap' /\ ~loadingMap'[s] ]_vars

\* a series of exactly one sample has just been answered for the default
\* symbol, which shows the message and no snapshot
C15_Witness ==
    /\ answered # <<>>
    /\ answered[1] = "AAPL"
    /\ ShortSeries(answered[2])
    /\ Len(answered[2].data["Time Series (5min)"]) = 1
    /\ ~hasData(dataMap, "AAPL")
    /\ errorMap["AAPL"] = TypeErrorMessage
    /\ ~isLoading(loadingMap, "AAPL")


\* C16: in every reachable state every stored snapshot has a history of at
\* least 2 samples, and every symbol of the sorted rows has such a
\* snapshot; no answer, an empty or one-sample series included, stores a
\* shorter one.
C16_AtLeastTwoSamples ==
    /\ \A s \in DOMAIN dataMap : Len(dataMap[s].history) >= 2
    /\ \A s \in Range(sorted) : hasData(dataMap, s) /\ Len(dataMap[s].history) >= 2

\* a series too short has been answered for one symbol, which shows the
\* message of the TypeError, while two others are rows with two samples
C16_Witness ==
    /\ "MSFT" \in Range(symbols)
    /\ ~hasData(dataMap, "MSFT")
    /\ "MSFT" \in DOMAIN errorMap
    /\ errorMap["MSFT"] = TypeErrorMessage
    /\ Range(sorted) = {"AAPL", "GOOG"}
    /\ Len(dataMap["GOOG"].history) = 2


\* C17 as claimed: the program reaches a state in which one symbol has
\* both a stored snapshot and a non-empty error message.
C17_SnapshotAndErrorReached ==
    <>(\E s \in Syms :
          hasData(dataMap, s) /\ s \in DOMAIN errorMap /\ errorMap[s] # "")

\* C17: in no reachable state does a symbol have both a stored snapshot
\* and a non-empty error message: a fetch starts only for a symbol without
\* snapshot and clears its message, a failure removes the snapshot with
\* the message it records, a success records no message.
C17_NeverSnapshotAndError ==
    \A s \in Syms :
        hasData(dataMap, s) => (s \in DOMAIN errorMap /\ errorMap[s] = "")

\* one symbol got its snapshot while another shows a failure, each with
\* one of the two only
C17_Witness ==
    /\ hasData(dataMap, "GOOG")
    /\ errorMap["GOOG"] = ""
    /\ "MSFT" \in DOMAIN errorMap
    /\ errorMap["MSFT"] = "Network Error"
    /\ ~hasData(dataMap, "MSFT")
    /\ ~hasData(dataMap, "AAPL")


\* C18: a step that flips the sort direction changes nothing else: the
\* watchlist, the snapshots, the in-flight flags, the error messages, the
\* selection, the query, the suggestions and the outstanding requests are
\* as before, the effect is not scheduled, so no fetch starts, and the
\* sorted rows are the same symbols, in whatever order.
C18_ToggleSortFrame ==
    [][ sortAsc' # sortAsc =>
            /\ sortAsc' = ~sortAsc
            /\ UNCHANGED <<symbols, dataMap, loadingMap, errorMap, selected, query,
                           suggestions, stockReqs, searchReqs, effectPending>>
            /\ Range(sortedRows(symbols, dataMap, sortAsc')) = Range(sorted)
            /\ Len(sortedRows(symbols, dataMap, sortAsc')) = Len(sorted) ]_vars

\* descending order is set while a fetch is in flight, a row is selected
\* and suggestions are shown: all of it survived the click
C18_Witness ==
    /\ ~sortAsc
    /\ ~effectPending
    /\ stockReqs["MSFT"] = 1
    /\ hasData(dataMap, "AAPL")
    /\ selected = {"AAPL"}
    /\ query = <<"a", " ">>
    /\ Len(suggestions) = 3


\* C19: once a symbol has a snapshot, no step starts a fetch for it and no
\* step replaces or removes its snapshot: it has no request in flight, and
\* after every step it has the same snapshot and still none in flight.
C19_SnapshotIsFinal ==
    [][ \A s \in Syms :
            hasData(dataMap, s) =>
                /\ hasData(dataMap', s)
                /\ dataMap'[s] = dataMap[s]
                /\ stockReqs[s] = 0 /\ stockReqs'[s] = 0
                /\ ~isLoading(loadingMap', s) ]_vars

\* the effect has run for a watchlist of three after the default symbol
\* got its snapshot: it fetches the two others, not the default one
C19_Witness ==
    /\ ~effectPending
    /\ Len(symbols) = 3
    /\ hasData(dataMap, "AAPL")
    /\ stockReqs = [s \in Syms |-> IF s = "AAPL" THEN 0 ELSE 1]
    /\ isLoading(loadingMap, "MSFT")
    /\ isLoading(loadingMap, "GOOG")


\* C20 as claimed: in every reachable state a non-empty suggestion list
\* goes with a query of at least 2 characters; an answer that arrives after
\* the query was shortened or a suggestion was selected does not fill the
\* list again.
C20_SuggestionsNeedQuery == suggestions # <<>> => Len(query) >= MinQueryLen

====
